---- MODULE Spec2Model ----
(***************************************************************************)
(* A model of src/sorare_bot.py: the SorareBot object, its helpers          *)
(* (_get_salt, _authenticate, _send_alert, _fetch_listings) and the control *)
(* flow of run().  Network peers (the salt endpoint, the GraphQL endpoint,  *)
(* the webhook) are the environment: every call draws its outcome from a    *)
(* small set of outcomes the peer can produce.                              *)
(*                                                                          *)
(* Python values that come out of JSON are tagged records, so that None,    *)
(* str, dict and list stay distinguishable and dict.get / subscripting can  *)
(* raise just as they do in Python.  A Python call that may raise returns   *)
(* Ret(v) or Raise(e).  The emoji that open the bot's messages are written  *)
(* as ASCII tags ("[warn] ", "[red] ", ...).                                *)
(***************************************************************************)
EXTENDS Naturals, Sequences, FiniteSets

VARIABLES
    pc,         \* position of run(): the statement about to execute
    client,     \* self.client
    password,   \* self.password (os.getenv result)
    webhook,    \* self.webhook (os.getenv result)
    listings,   \* run(): the part of `listings` the for loop has not visited
    err,        \* the exception text `e` carried into an except handler
    authState,  \* history: whether _authenticate was called, and how it ended
    streak,     \* history: consecutive cycles that ended in the except handler
    authCalls,  \* history: calls of _authenticate in this run
    startedSent,\* history: "started" notifications sent in this run
    log,        \* history: calls made since the current cycle's fetch began
    reply,      \* a listings query result handed to the response processing (SpecParse only)
    processed,  \* what the response processing made of it (SpecParse only)
    twin        \* a second run fed the same inputs (SpecPair only)

vars == <<pc, client, password, webhook, listings, err, authState, streak,
          authCalls, startedSent, log, reply, processed, twin>>

\* ------------------------------------------------------------------ bounds

\* Largest number of nodes in a listings response (the query asks for first: 5).
MaxNodes == 2

\* The consecutive-failure history counter stops counting here.
MaxStreak == 2

\* The whole-run history counters stop counting here.
MaxCalls == 2

\* Largest number of nodes in a listings response under FairSpec.
MaxFairNodes == 1

\* ------------------------------------------------------- program constants

LongSleep == 300
ShortSleep == 60
PostTimeout == 5

\* ------------------------------------------------------------ Python values

JNull == [t |-> "null"]
JStr(s) == [t |-> "str", s |-> s]
JObj(f) == [t |-> "obj", f |-> f]
JList(l) == [t |-> "list", l |-> l]

EmptyDict == JObj([k \in {} |-> JNull])
EmptyList == JList(<< >>)

Ret(v) == [ok |-> TRUE, v |-> v]
Raise(e) == [ok |-> FALSE, err |-> e]

\* r, and if it did not raise, Op applied to its value
Then(r, Op(_)) == IF r.ok THEN Op(r.v) ELSE r

\* d.get(k, default)
DictGet(d, k, default) ==
    IF d.t = "obj"
    THEN Ret(IF k \in DOMAIN d.f THEN d.f[k] ELSE default)
    ELSE Raise("AttributeError: no attribute 'get'")

\* d[k] with a string key
Subscript(d, k) ==
    CASE d.t = "obj" -> IF k \in DOMAIN d.f THEN Ret(d.f[k]) ELSE Raise("KeyError: " \o k)
      [] d.t = "null" -> Raise("TypeError: 'NoneType' object is not subscriptable")
      [] d.t = "str" -> Raise("TypeError: string indices must be integers")
      [] d.t = "list" -> Raise("TypeError: list indices must be integers")

\* d[k1][k2]...
RECURSIVE SubscriptPath(_, _)
SubscriptPath(d, keys) ==
    IF keys = << >> THEN Ret(d)
    ELSE Then(Subscript(d, Head(keys)), LAMBDA x : SubscriptPath(x, Tail(keys)))

\* l[0]
First(l) ==
    CASE l.t = "list" -> IF l.l # << >> THEN Ret(l.l[1]) ELSE Raise("IndexError")
      [] l.t = "null" -> Raise("TypeError: 'NoneType' object is not subscriptable")
      [] l.t = "obj" -> Raise("KeyError: 0")

\* bool(v)
Truthy(v) ==
    CASE v.t = "null" -> FALSE
      [] v.t = "str" -> v.s # ""
      [] v.t = "list" -> v.l # << >>
      [] v.t = "obj" -> DOMAIN v.f # {}

\* str(v) as an f-string renders it
PyStr(v) ==
    CASE v.t = "null" -> "None"
      [] v.t = "str" -> v.s

\* ---------------------------------------------------------------- _get_salt

\* Outcomes of requests.get on the salt endpoint: the call raises, or a
\* response arrives with a status and a body (body: what response.json() gives).
SaltBodies ==
    { Ret(JObj([salt |-> JStr("$2a$11$validsaltvalidsaltva")])),
      Ret(JObj([salt |-> JStr("not-a-bcrypt-salt")])),
      Ret(JObj([salt |-> JStr("")])),
      Ret(JObj([salt |-> JNull])),
      Ret(JObj([error |-> JStr("not found")])),
      Ret(JList(<< >>)),
      Raise("JSONDecodeError") }

SaltOutcomes ==
    { [kind |-> "raise", err |-> "ConnectionError"] }
    \cup { [kind |-> "resp", status |-> st, body |-> b] : st \in {200, 404}, b \in SaltBodies }

\* (mutant) the status of the response is not looked at
RaiseForStatusSkipped(o) == Ret(JNull)

\* response.raise_for_status() (line 29)
RaiseForStatus(o) ==
    IF o.status >= 400 /\ o.status < 600 THEN Raise("HTTPError") ELSE Ret(JNull)

\* _get_salt (lines 22-33): the salt, or None after any exception
GetSalt(o) ==
    LET r == IF o.kind = "raise" THEN Raise(o.err)
             ELSE Then(RaiseForStatus(o), LAMBDA x :
                  Then(o.body, LAMBDA b : DictGet(b, "salt", JNull)))
    IN IF r.ok THEN r.v ELSE JNull

\* ------------------------------------------------------------ _authenticate

ValidSalts == { "$2a$11$validsaltvalidsaltva" }

\* bcrypt.hashpw(self.password.encode(), salt.encode()).decode("utf-8") (line 41)
HashPw(pw, salt) ==
    IF pw.t # "str" \/ salt.t # "str" THEN Raise("AttributeError: no attribute 'encode'")
    ELSE IF salt.s \in ValidSalts THEN Ret(<<"bcrypt", salt.s, pw.s>>)
    ELSE Raise("ValueError: Invalid salt")

Token == [token |-> JStr("jwt-1")]
OneError == JList(<<JObj([message |-> JStr("Invalid credentials")])>>)

\* Values of the "signIn" field of the sign-in response
SignInValues ==
    { JNull,
      JObj([errors |-> OneError]),
      JObj([errors |-> OneError, jwtToken |-> JObj(Token)]),
      JObj([errors |-> EmptyList, jwtToken |-> JObj(Token)]),
      JObj([errors |-> JNull, jwtToken |-> JObj(Token)]),
      JObj([jwtToken |-> JObj(Token)]),
      JObj([errors |-> EmptyList, jwtToken |-> JNull]),
      JObj([errors |-> EmptyList, jwtToken |-> JObj([token |-> JNull])]) }

\* Outcomes of temp_client.execute (lines 50-66)
SignInOutcomes ==
    { [kind |-> "raise", err |-> "TransportServerError"],
      [kind |-> "result", body |-> EmptyDict] }
    \cup { [kind |-> "result", body |-> JObj([signIn |-> v])] : v \in SignInValues }

\* (mutant) the errors are looked at only when no token was issued
SignInErrorsUnlessToken(result) ==
    Then(DictGet(result, "signIn", EmptyDict), LAMBDA s :
         IF s.t = "obj" /\ "jwtToken" \in DOMAIN s.f THEN Ret(JNull)
         ELSE DictGet(s, "errors", JNull))

\* result.get("signIn", {}).get("errors") (line 68)
SignInErrors(result) ==
    Then(DictGet(result, "signIn", EmptyDict), LAMBDA s : DictGet(s, "errors", JNull))

\* The client built at lines 71-78
AuthedClient(token) ==
    [t |-> "client", authorization |-> "Bearer " \o PyStr(token), aud |-> "sorare-bot"]

\* _authenticate (lines 35-78).  selfClient is self.client on entry; the
\* result holds self.client on exit and the requests that were sent, each
\* with the reply it got.
Authenticate(selfClient, pw, saltOut, signOut) ==
    LET salt == GetSalt(saltOut)
        getSalt == << [op |-> "get_salt", resp |-> saltOut] >>
        Fail(e, calls) == [ok |-> FALSE, err |-> e, client |-> selfClient, calls |-> calls]
    IN  IF ~Truthy(salt) THEN Fail("Failed to retrieve salt from Sorare API.", getSalt)
        ELSE LET hashed == HashPw(pw, salt) IN
        IF ~hashed.ok THEN Fail(hashed.err, getSalt)
        ELSE LET calls == getSalt \o << [op |-> "sign_in", password |-> hashed.v,
                                         resp |-> signOut] >> IN
        IF signOut.kind = "raise" THEN Fail(signOut.err, calls)
        ELSE LET errors == SignInErrors(signOut.body) IN
        IF ~errors.ok THEN Fail(errors.err, calls)
        ELSE IF Truthy(errors.v) THEN Fail("Auth failed: [errors]", calls)
        ELSE LET token == SubscriptPath(signOut.body, <<"signIn", "jwtToken", "token">>) IN
        IF ~token.ok THEN Fail(token.err, calls)
        ELSE [ok |-> TRUE, err |-> "", client |-> AuthedClient(token.v), calls |-> calls]

\* -------------------------------------------------------------- _send_alert

\* Outcomes of requests.post (lines 83-87).  Without a webhook URL the call
\* raises MissingSchema before anything is sent.
PostOutcomes(wh) ==
    IF wh.t = "null" THEN { "missing_schema" }
    ELSE { "2xx", "non_2xx", "timeout", "connection_error" }

PostRaises(out) == out \in { "missing_schema", "timeout", "connection_error" }

\* (mutant) no try around the POST: its exception reaches the caller
SendAlertPropagates(wh, message, out) ==
    [ ok |-> ~PostRaises(out),
      err |-> IF PostRaises(out) THEN out ELSE "",
      calls |-> << [op |-> "post", msg |-> message, timeout |-> PostTimeout,
                    out |-> out, printed |-> FALSE] >> ]

\* _send_alert (lines 80-89): one requests.post; an exception is printed and
\* swallowed.  A response of any status returns normally.
SendAlert(wh, message, out) ==
    [ ok |-> TRUE,
      err |-> "",
      calls |-> << [op |-> "post", msg |-> message, timeout |-> PostTimeout,
                    out |-> out, printed |-> PostRaises(out)] >> ]

\* ---------------------------------------------------------- _fetch_listings

NotAvailable == JStr("N/A")

\* the body of the for loop (lines 128-137)
ParseCard(card) ==
    LET edges == Then(DictGet(card, "saleOffers", EmptyDict),
                      LAMBDA s : DictGet(s, "edges", EmptyList))
    IN  IF ~edges.ok THEN edges
        ELSE LET price_data == edges.v
                 Offer(field) ==
                     IF Truthy(price_data)
                     THEN Then(First(price_data),
                               LAMBDA e : SubscriptPath(e, <<"node", "price", field>>))
                     ELSE Ret(NotAvailable)
                 price == Offer("amount")
                 currency == Offer("currency")
                 slug == Subscript(card, "slug")
                 player == SubscriptPath(card, <<"player", "displayName">>)
             IN  IF ~price.ok THEN price
                 ELSE IF ~currency.ok THEN currency
                 ELSE IF ~slug.ok THEN slug
                 ELSE IF ~player.ok THEN player
                 ELSE Ret([slug |-> slug.v, price |-> price.v,
                           currency |-> currency.v, player |-> player.v])

\* (mutant) a node whose processing raises is skipped
RECURSIVE ParseNodesSkipBad(_)
ParseNodesSkipBad(cards) ==
    IF cards = << >> THEN Ret(<< >>)
    ELSE LET h == ParseCard(Head(cards))
             rest == ParseNodesSkipBad(Tail(cards))
         IN IF h.ok THEN Ret(<<h.v>> \o rest.v) ELSE rest

\* the for loop over the nodes (lines 126-137): the first raise ends it
RECURSIVE ParseNodes(_)
ParseNodes(cards) ==
    IF cards = << >> THEN Ret(<< >>)
    ELSE LET h == ParseCard(Head(cards)) IN
         IF ~h.ok THEN h
         ELSE LET rest == ParseNodes(Tail(cards)) IN
              IF ~rest.ok THEN rest ELSE Ret(<<h.v>> \o rest.v)

\* lines 126-139
ParseListings(result) ==
    LET nodes == Then(Then(DictGet(result, "football", EmptyDict),
                           LAMBDA f : DictGet(f, "cards", EmptyDict)),
                      LAMBDA c : DictGet(c, "nodes", EmptyList))
    IN  IF ~nodes.ok THEN nodes
        ELSE IF nodes.v.t = "null" THEN Raise("TypeError: 'NoneType' object is not iterable")
        ELSE ParseNodes(nodes.v.l)

\* the f-string of lines 152-156
FormatMessage(card) ==
    "[ball] " \o PyStr(card.player) \o "\n[money] " \o PyStr(card.price) \o " "
        \o PyStr(card.currency) \o "\n[link] https://sorare.com/cards/" \o PyStr(card.slug)

PlayerObj(name) == JObj([displayName |-> JStr(name)])
SaleOffer(amount, currency) ==
    JObj([node |-> JObj([price |-> JObj([amount |-> JStr(amount),
                                          currency |-> JStr(currency)])])])

\* Nodes the listings query can return: with an offer, with no offer, with no
\* saleOffers field, with no slug, with a null player.
GoodCards ==
    { JObj([slug |-> JStr("card-a"), player |-> PlayerObj("Player A"),
            saleOffers |-> JObj([edges |-> JList(<<SaleOffer("1000000", "WEI")>>)])]),
      JObj([slug |-> JStr("card-b"), player |-> PlayerObj("Player B"),
            saleOffers |-> JObj([edges |-> EmptyList])]),
      JObj([slug |-> JStr("card-c"), player |-> PlayerObj("Player C")]) }

BadCards ==
    { JObj([player |-> PlayerObj("Player D"),
            saleOffers |-> JObj([edges |-> EmptyList])]),
      JObj([slug |-> JStr("card-e"), player |-> JNull,
            saleOffers |-> JObj([edges |-> JList(<<SaleOffer("5", "ETH")>>)])]) }

CardShapes == GoodCards \cup BadCards

RECURSIVE SeqsUpTo(_, _)
SeqsUpTo(S, n) ==
    IF n = 0 THEN { << >> }
    ELSE LET shorter == SeqsUpTo(S, n - 1)
         IN shorter \cup { Append(q, x) : q \in shorter, x \in S }

ListingBody(nodes) == JObj([football |-> JObj([cards |-> JObj([nodes |-> nodes])])])

\* Outcomes of self.client.execute(query) (line 119), with at most n nodes
ExecOutcomesUpTo(n) ==
    { [kind |-> "raise", err |-> "ConnectionError: network is unreachable"],
      [kind |-> "result", body |-> EmptyDict],
      [kind |-> "result", body |-> JObj([football |-> JNull])],
      [kind |-> "result", body |-> ListingBody(JNull)] }
    \cup { [kind |-> "result", body |-> ListingBody(JList(q))] :
             q \in SeqsUpTo(CardShapes, n) }

ExecOutcomes == ExecOutcomesUpTo(MaxNodes)

\* _fetch_listings returns v / is left by exception e, after the calls made
FetchReturn(v, calls) ==
    [ok |-> TRUE, v |-> v, err |-> "", calls |-> Append(calls, [op |-> "return", v |-> v])]
FetchRaise(e, calls) ==
    [ok |-> FALSE, v |-> << >>, err |-> e, calls |-> calls]

\* (mutant) the except clause alerts and lets the exception go on
QueryFailedReraise(wh, e, sent, postOut) ==
    LET a == SendAlert(wh, "[warn] API request failed: " \o e, postOut)
    IN FetchRaise(IF a.ok THEN e ELSE a.err, sent \o a.calls)

\* the except clause of lines 121-124: alert, return []
QueryFailed(wh, e, sent, postOut) ==
    LET a == SendAlert(wh, "[warn] API request failed: " \o e, postOut)
    IN IF a.ok THEN FetchReturn(<< >>, sent \o a.calls)
       ELSE FetchRaise(a.err, sent \o a.calls)

\* _fetch_listings (lines 91-139): the listings returned, or the exception
\* that leaves it, with the calls made (the last one being its return)
FetchListings(selfClient, wh, execOut, postOut) ==
    LET executed ==
            IF selfClient.t = "null"
            THEN Raise("AttributeError: 'NoneType' object has no attribute 'execute'")
            ELSE IF execOut.kind = "raise" THEN Raise(execOut.err)
            ELSE Ret(execOut.body)
        sent == IF selfClient.t = "null" THEN << >>
                ELSE << [op |-> "execute", raised |-> ~executed.ok,
                         err |-> IF executed.ok THEN "" ELSE executed.err,
                         resp |-> execOut] >>
    IN  IF ~executed.ok
        THEN QueryFailed(wh, executed.err, sent, postOut)
        ELSE LET parsed == ParseListings(executed.v)
             IN IF parsed.ok THEN FetchReturn(parsed.v, sent)
                ELSE FetchRaise(parsed.err, sent)

\* -------------------------------------------------------------------- run()

\* (mutant) the authentication call sits inside the loop's try
HandlerAuthInsideLoop(p) ==
    IF p \in {"authenticate", "fetch", "notify", "sleep_long"} THEN "cycle_alert"
    ELSE IF p \in {"started_alert", "cycle_alert", "sleep_short"} THEN "critical_alert"
    ELSE "done"

\* (mutant) the loop has no try of its own
HandlerNoInnerTry(p) ==
    IF p \in {"authenticate", "started_alert", "fetch", "notify", "sleep_long",
              "cycle_alert", "sleep_short"}
    THEN "critical_alert"
    ELSE "done"

\* The except clause that receives an exception raised at position p:
\* line 162 for the body of the inner try (lines 150-160), line 168 for the
\* rest of the outer try; an exception in the outer handler leaves run().
Handler(p) ==
    IF p \in {"fetch", "notify", "sleep_long"} THEN "cycle_alert"
    ELSE IF p \in {"authenticate", "started_alert", "cycle_alert", "sleep_short"}
    THEN "critical_alert"
    ELSE "done"

Min(a, b) == IF a < b THEN a ELSE b

\* The bot and the frame of run() as one value
Cur ==
    [pc |-> pc, client |-> client, password |-> password, webhook |-> webhook,
     listings |-> listings, err |-> err, authState |-> authState,
     streak |-> streak, authCalls |-> authCalls, startedSent |-> startedSent,
     log |-> log]

Load(b) ==
    /\ pc' = b.pc
    /\ client' = b.client
    /\ password' = b.password
    /\ webhook' = b.webhook
    /\ listings' = b.listings
    /\ err' = b.err
    /\ authState' = b.authState
    /\ streak' = b.streak
    /\ authCalls' = b.authCalls
    /\ startedSent' = b.startedSent
    /\ log' = b.log
    /\ UNCHANGED <<reply, processed>>

\* line 144
AuthenticateStep(b, saltOut, signOut) ==
    LET r == Authenticate(b.client, b.password, saltOut, signOut)
    IN [b EXCEPT !.client = r.client,
                 !.log = @ \o r.calls,
                 !.authState = IF r.ok THEN "returned" ELSE "raised",
                 !.authCalls = Min(@ + 1, MaxCalls),
                 !.err = r.err,
                 !.pc = IF r.ok THEN "started_alert" ELSE Handler(b.pc)]

\* line 145
StartedAlertStep(b, postOut) ==
    LET r == SendAlert(b.webhook, "[green] Sorare Bot Started Successfully", postOut)
    IN [b EXCEPT !.log = @ \o r.calls,
                 !.startedSent = Min(@ + 1, MaxCalls),
                 !.err = r.err,
                 !.pc = IF r.ok THEN "fetch" ELSE Handler(b.pc)]

\* line 150, and the entry of the for loop of line 151
FetchStep(b, execOut, postOut) ==
    LET r == FetchListings(b.client, b.webhook, execOut, postOut)
    IN [b EXCEPT !.log = << [op |-> "fetch"] >> \o r.calls,
                 !.listings = r.v,
                 !.err = r.err,
                 !.pc = IF ~r.ok THEN Handler(b.pc)
                        ELSE IF r.v = << >> THEN "sleep_long" ELSE "notify"]

\* (mutant) the loop is left after its first notification
NotifyFirstOnlyStep(b, postOut) ==
    LET r == SendAlert(b.webhook, FormatMessage(Head(b.listings)), postOut)
    IN [b EXCEPT !.log = @ \o r.calls,
                 !.listings = << >>,
                 !.err = r.err,
                 !.pc = IF ~r.ok THEN Handler(b.pc) ELSE "sleep_long"]

\* one pass of the for loop (lines 151-158)
NotifyStep(b, postOut) ==
    LET card == Head(b.listings)
        r == SendAlert(b.webhook, FormatMessage(card), postOut)
    IN [b EXCEPT !.log = @ \o r.calls,
                 !.listings = Tail(@),
                 !.err = r.err,
                 !.pc = IF ~r.ok THEN Handler(b.pc)
                        ELSE IF Tail(b.listings) = << >> THEN "sleep_long" ELSE "notify"]

\* (mutant) after a failed query the loop authenticates again
SleepLongReauthStep(b) ==
    [b EXCEPT !.log = Append(@, [op |-> "sleep", secs |-> LongSleep]),
              !.streak = 0,
              !.pc = IF \E i \in DOMAIN b.log : b.log[i].op = "execute" /\ b.log[i].raised
                     THEN "authenticate" ELSE "fetch"]

\* (mutant) the "started" notification sits inside the loop
SleepLongThenStartedStep(b) ==
    [b EXCEPT !.log = Append(@, [op |-> "sleep", secs |-> LongSleep]),
              !.streak = 0,
              !.pc = "started_alert"]

\* line 160
SleepLongStep(b) ==
    [b EXCEPT !.log = Append(@, [op |-> "sleep", secs |-> LongSleep]),
              !.streak = 0,
              !.pc = "fetch"]

\* (mutant) the loop gives up after a number of failures in a row
CycleAlertGiveUpStep(b, postOut) ==
    LET r == SendAlert(b.webhook, "[warn] Unexpected error: " \o b.err, postOut)
    IN [b EXCEPT !.log = @ \o r.calls,
                 !.listings = << >>,
                 !.streak = Min(@ + 1, MaxStreak),
                 !.pc = IF b.streak + 1 >= MaxStreak THEN "done" ELSE "sleep_short"]

\* (mutant) the handler goes on to the next fetch at once
CycleAlertNoSleepStep(b, postOut) ==
    LET r == SendAlert(b.webhook, "[warn] Unexpected error: " \o b.err, postOut)
    IN [b EXCEPT !.log = @ \o r.calls,
                 !.listings = << >>,
                 !.streak = Min(@ + 1, MaxStreak),
                 !.pc = "fetch"]

\* lines 162-165
CycleAlertStep(b, postOut) ==
    LET r == SendAlert(b.webhook, "[warn] Unexpected error: " \o b.err, postOut)
    IN [b EXCEPT !.log = @ \o r.calls,
                 !.listings = << >>,
                 !.streak = Min(@ + 1, MaxStreak),
                 !.err = IF r.ok THEN @ ELSE r.err,
                 !.pc = IF r.ok THEN "sleep_short" ELSE Handler(b.pc)]

\* (mutant) the backoff grows with the number of failures in a row
SleepShortBackoffStep(b) ==
    [b EXCEPT !.log = Append(@, [op |-> "sleep", secs |-> ShortSleep * b.streak]),
              !.pc = "fetch"]

\* line 166
SleepShortStep(b) ==
    [b EXCEPT !.log = Append(@, [op |-> "sleep", secs |-> ShortSleep]),
              !.pc = "fetch"]

\* (mutant) the critical handler alerts and authenticates again
CriticalAlertThenRetryStep(b, postOut) ==
    LET r == SendAlert(b.webhook, "[red] Critical failure: " \o b.err, postOut)
    IN [b EXCEPT !.log = @ \o r.calls,
                 !.pc = "authenticate"]

\* lines 168-171, and the return of run()
CriticalAlertStep(b, postOut) ==
    LET r == SendAlert(b.webhook, "[red] Critical failure: " \o b.err, postOut)
    IN [b EXCEPT !.log = @ \o r.calls,
                 !.pc = "done"]

WebhookUrl == JStr("https://discord.example/api/webhooks/1")

\* the response processing has not run
NotParsed == [ok |-> FALSE, err |-> "not run"]

\* The webhook replies a step at position p can consume: _fetch_listings
\* posts only from its except clause, the sleeps do not post.
PostReplies(b, execOut) ==
    IF \/ b.pc \in {"started_alert", "notify", "cycle_alert", "critical_alert"}
       \/ b.pc = "fetch" /\ (b.client.t = "null" \/ execOut.kind = "raise")
    THEN PostOutcomes(b.webhook)
    ELSE { "not_called" }

\* __init__ (lines 13-20), with the environment variables set or missing
Init ==
    /\ pc = "authenticate"
    /\ client = JNull
    /\ password \in { JNull, JStr("hunter2") }
    /\ webhook \in { JNull, WebhookUrl }
    /\ listings = << >>
    /\ err = ""
    /\ authState = "not_called"
    /\ streak = 0
    /\ authCalls = 0
    /\ startedSent = 0
    /\ log = << >>
    /\ reply = EmptyDict
    /\ processed = NotParsed
    /\ twin = [Cur EXCEPT !.webhook = WebhookUrl]

CallAuthenticate ==
    /\ pc = "authenticate"
    /\ \E s \in SaltOutcomes, g \in SignInOutcomes : Load(AuthenticateStep(Cur, s, g))
    /\ UNCHANGED twin

StartedAlert ==
    /\ pc = "started_alert"
    /\ \E o \in PostOutcomes(webhook) : Load(StartedAlertStep(Cur, o))
    /\ UNCHANGED twin

Fetch ==
    /\ pc = "fetch"
    /\ \E x \in ExecOutcomes : \E o \in PostReplies(Cur, x) : Load(FetchStep(Cur, x, o))
    /\ UNCHANGED twin

Notify ==
    /\ pc = "notify"
    /\ \E o \in PostOutcomes(webhook) : Load(NotifyStep(Cur, o))
    /\ UNCHANGED twin

SleepLong ==
    /\ pc = "sleep_long"
    /\ Load(SleepLongStep(Cur))
    /\ UNCHANGED twin

CycleAlert ==
    /\ pc = "cycle_alert"
    /\ \E o \in PostOutcomes(webhook) : Load(CycleAlertStep(Cur, o))
    /\ UNCHANGED twin

SleepShort ==
    /\ pc = "sleep_short"
    /\ Load(SleepShortStep(Cur))
    /\ UNCHANGED twin

CriticalAlert ==
    /\ pc = "critical_alert"
    /\ \E o \in PostOutcomes(webhook) : Load(CriticalAlertStep(Cur, o))
    /\ UNCHANGED twin

Next ==
    \/ CallAuthenticate
    \/ StartedAlert
    \/ Fetch
    \/ Notify
    \/ SleepLong
    \/ CycleAlert
    \/ SleepShort
    \/ CriticalAlert

Spec == Init /\ [][Next]_vars

\* ------------------------------------------------ two runs on the same inputs

\* The step of run() at b.pc, given the replies of the peers
Step(b, saltOut, signOut, execOut, postOut) ==
    CASE b.pc = "authenticate" -> AuthenticateStep(b, saltOut, signOut)
      [] b.pc = "started_alert" -> StartedAlertStep(b, postOut)
      [] b.pc = "fetch" -> FetchStep(b, execOut, postOut)
      [] b.pc = "notify" -> NotifyStep(b, postOut)
      [] b.pc = "sleep_long" -> SleepLongStep(b)
      [] b.pc = "cycle_alert" -> CycleAlertStep(b, postOut)
      [] b.pc = "sleep_short" -> SleepShortStep(b)
      [] b.pc = "critical_alert" -> CriticalAlertStep(b, postOut)
      [] b.pc = "done" -> b

\* The reference run has a webhook, which answers every POST with a 2xx.
Delivered(wh) == IF wh.t = "null" THEN "missing_schema" ELSE "2xx"

\* One step of the run and of its twin: the salt, sign-in and listings
\* replies are shared, the webhook's replies are not.
PairStep ==
    /\ pc # "done"
    /\ \E s \in (IF pc = "authenticate" THEN SaltOutcomes
                 ELSE {[kind |-> "raise", err |-> "ConnectionError"]}),
          g \in (IF pc = "authenticate" THEN SignInOutcomes
                 ELSE {[kind |-> "raise", err |-> "TransportServerError"]}),
          x \in (IF "fetch" \in {pc, twin.pc} THEN ExecOutcomes
                 ELSE {[kind |-> "result", body |-> EmptyDict]}) :
            \E o \in PostReplies(Cur, x) :
                /\ Load(Step(Cur, s, g, x, o))
                /\ twin' = Step(twin, s, g, x, Delivered(twin.webhook))

SpecPair == Init /\ [][PairStep]_vars

\* The fetch of FairSpec: as Fetch, on the replies of at most MaxFairNodes nodes
FairFetch ==
    /\ pc = "fetch"
    /\ \E x \in ExecOutcomesUpTo(MaxFairNodes) :
          \E o \in PostReplies(Cur, x) : Load(FetchStep(Cur, x, o))
    /\ UNCHANGED twin

FairNext ==
    \/ CallAuthenticate
    \/ StartedAlert
    \/ FairFetch
    \/ Notify
    \/ SleepLong
    \/ CycleAlert
    \/ SleepShort
    \/ CriticalAlert

\* ------------------------------------- the response processing on its own

\* Further nodes: saleOffers null, edges null, an offer with a null price,
\* two offers.
MoreCards ==
    { JObj([slug |-> JStr("card-f"), player |-> PlayerObj("Player F"),
            saleOffers |-> JNull]),
      JObj([slug |-> JStr("card-g"), player |-> PlayerObj("Player G"),
            saleOffers |-> JObj([edges |-> JNull])]),
      JObj([slug |-> JStr("card-h"), player |-> PlayerObj("Player H"),
            saleOffers |-> JObj([edges |-> JList(<<JObj([node |-> JObj([price |-> JNull])])>>)])]),
      JObj([slug |-> JStr("card-i"), player |-> PlayerObj("Player I"),
            saleOffers |-> JObj([edges |-> JList(<<SaleOffer("7", "EUR"),
                                                   SaleOffer("9", "USD")>>)])]) }

ParseReplies ==
    { EmptyDict, JObj([football |-> JNull]), ListingBody(JNull) }
    \cup { ListingBody(JList(q)) : q \in SeqsUpTo(CardShapes \cup MoreCards, MaxNodes) }

InitParse ==
    /\ pc = "fetch"
    /\ client = AuthedClient(JStr("jwt-1"))
    /\ password = JStr("hunter2")
    /\ webhook = WebhookUrl
    /\ listings = << >>
    /\ err = ""
    /\ authState = "returned"
    /\ streak = 0
    /\ authCalls = 1
    /\ startedSent = 1
    /\ log = << >>
    /\ reply \in ParseReplies
    /\ processed = NotParsed
    /\ twin = Cur

\* lines 126-139 applied to the result of line 119
Parse ==
    /\ processed = NotParsed
    /\ processed' = ParseListings(reply)
    /\ UNCHANGED <<pc, client, password, webhook, listings, err, authState, streak,
                   authCalls, startedSent, log, reply, twin>>

SpecParse == InitParse /\ [][Parse]_vars

\* run() is one thread: the statement it is at is executed in the end.
FairSpec == Init /\ [][FairNext]_vars /\ WF_vars(FairNext)

\* =================================================================== claims

\* ------------------------------------------------- reading the history log

Posts(events) == SelectSeq(events, LAMBDA e : e.op = "post")
Has(events, kind) == \E i \in DOMAIN events : events[i].op = kind
Count(events, kind) == Len(SelectSeq(events, LAMBDA e : e.op = kind))
Last(events) == events[Len(events)]
After(events, k) == SubSeq(events, k + 1, Len(events))

RunningPcs == {"fetch", "notify", "sleep_long", "cycle_alert", "sleep_short"}

\* ----------------------------------------------------------------------- C1
\* C1: self.client is set if and only if _authenticate has returned without
\* raising, and whenever run() is about to call _fetch_listings, or has called
\* it, self.client is set.
C1_SessionIffAuthenticated ==
    /\ (client.t = "client") <=> (authState = "returned")
    /\ (pc = "fetch" \/ Has(log, "fetch")) => client.t = "client"

C1_Witness ==
    /\ authState = "returned"
    /\ client = AuthedClient(JStr("jwt-1"))
    /\ Has(log, "fetch")
    /\ Has(log, "execute")

\* ----------------------------------------------------------------------- C2
\* C2: _fetch_listings never throws to its caller: every call of it returns,
\* so the step after the fetch is the for loop or the long sleep, never an
\* except handler.
C2_FetchNeverThrows ==
    [][pc = "fetch" => pc' \in {"notify", "sleep_long"}]_vars

\* ----------------------------------------------------------------------- C3
\* C3: the critical-failure handler and the end of run() are reached only
\* when _authenticate raised and before any fetch: no failure of a fetch, of
\* a notification or of listing processing leads there.
C3_CriticalOnlyFromAuthentication ==
    pc \in {"critical_alert", "done"} =>
        /\ authState = "raised"
        /\ ~Has(log, "fetch")
        /\ streak = 0

C3_Witness ==
    /\ pc = "fetch"
    /\ streak = MaxStreak
    /\ \E i \in DOMAIN log : log[i].op = "post" /\ log[i].out = "timeout"

\* ----------------------------------------------------------------------- C4
\* C4: after _authenticate has raised, run() makes no second _authenticate
\* call, no fetch and no sleep; it sends exactly one alert, the critical
\* failure alert carrying the error, and then is at its end with nothing
\* left to do.
C4_AuthFailureStopsAfterOneAlert ==
    authState = "raised" =>
        /\ pc \in {"critical_alert", "done"}
        /\ Count(log, "get_salt") = 1
        /\ Count(log, "sign_in") <= 1
        /\ ~Has(log, "fetch") /\ ~Has(log, "execute") /\ ~Has(log, "sleep")
        /\ pc = "critical_alert" => Count(log, "post") = 0
        /\ pc = "done" =>
              /\ Count(log, "post") = 1
              /\ Last(log).op = "post"
              /\ Last(log).msg = "[red] Critical failure: " \o err
              /\ ~ENABLED Next

C4_Witness ==
    /\ pc = "done"
    /\ authState = "raised"
    /\ Has(log, "sign_in")
    /\ Count(log, "post") = 1

\* ----------------------------------------------------------------------- C5
\* The salt request yielded no salt: it raised, or the status is not a
\* success, or the body has no salt field (or a null or empty one).
NoSalt(o) ==
    \/ o.kind = "raise"
    \/ o.status >= 400
    \/ ~o.body.ok
    \/ o.body.v.t # "obj"
    \/ "salt" \notin DOMAIN o.body.v.f
    \/ o.body.v.f["salt"] \in {JNull, JStr("")}

\* C5: if the salt request yielded no salt, _authenticate raises and no
\* sign-in mutation is sent.
C5_NoSaltNoSignIn ==
    \A i \in DOMAIN log :
        (log[i].op = "get_salt" /\ NoSalt(log[i].resp)) =>
            /\ authState = "raised"
            /\ client = JNull
            /\ ~Has(log, "sign_in")

\* a non-success status whose body nevertheless carries a usable salt
C5_Witness ==
    /\ authState = "raised"
    /\ Len(log) >= 1
    /\ log[1].op = "get_salt"
    /\ log[1].resp.kind = "resp"
    /\ log[1].resp.status = 404
    /\ log[1].resp.body = Ret(JObj([salt |-> JStr("$2a$11$validsaltvalidsaltva")]))
    /\ password.t = "str"

\* ----------------------------------------------------------------------- C6
\* The sign-in reply carries a non-empty errors list.
HasErrors(o) ==
    /\ o.kind = "result"
    /\ "signIn" \in DOMAIN o.body.f
    /\ o.body.f["signIn"].t = "obj"
    /\ "errors" \in DOMAIN o.body.f["signIn"].f
    /\ o.body.f["signIn"].f["errors"].t = "list"
    /\ o.body.f["signIn"].f["errors"].l # << >>

HasToken(o) ==
    /\ o.kind = "result"
    /\ "signIn" \in DOMAIN o.body.f
    /\ o.body.f["signIn"].t = "obj"
    /\ "jwtToken" \in DOMAIN o.body.f["signIn"].f
    /\ o.body.f["signIn"].f["jwtToken"].t = "obj"

\* C6: if the sign-in reply carries a non-empty errors list, _authenticate
\* raises and self.client stays None, also when the reply carries a token.
C6_SignInErrorsNoSession ==
    \A i \in DOMAIN log :
        (log[i].op = "sign_in" /\ HasErrors(log[i].resp)) =>
            /\ authState = "raised"
            /\ client = JNull

C6_Witness ==
    /\ authState = "raised"
    /\ \E i \in DOMAIN log :
          /\ log[i].op = "sign_in"
          /\ HasErrors(log[i].resp)
          /\ HasToken(log[i].resp)

\* ----------------------------------------------------------------------- C7
\* The cycle's listings query call threw.
ExecuteRaised == Len(log) >= 2 /\ log[2].op = "execute" /\ log[2].raised

\* C7: when the listings query call throws, _fetch_listings returns an empty
\* list instead of raising: the cycle holds exactly one alert, which carries
\* the error text, no listing notification, and goes from the fetch to the
\* 300-second sleep and from there to the next fetch, never to the handler.
C7_QueryFailureAbsorbed ==
    ExecuteRaised =>
        /\ pc \in {"sleep_long", "fetch"}
        /\ listings = << >>
        /\ Len(log) >= 4
        /\ log[1].op = "fetch"
        /\ log[3].op = "post"
        /\ log[3].msg = "[warn] API request failed: " \o log[2].err
        /\ log[4] = [op |-> "return", v |-> << >>]
        /\ pc = "sleep_long" => Len(log) = 4
        /\ pc = "fetch" => Len(log) = 5 /\ log[5] = [op |-> "sleep", secs |-> 300]

C7_Witness ==
    /\ ExecuteRaised
    /\ pc = "fetch"
    /\ log[2].err = "ConnectionError: network is unreachable"
    /\ log[3].out = "connection_error"
    /\ Last(log).op = "sleep"

\* ----------------------------------------------------------------------- C8
\* What a run did, without the webhook's replies: the calls and sleeps of
\* the current cycle and the position of run().
Trace(b) ==
    [pc |-> b.pc,
     steps |-> [i \in DOMAIN b.log |->
                  IF b.log[i].op = "post"
                  THEN [op |-> "post", msg |-> b.log[i].msg, timeout |-> b.log[i].timeout]
                  ELSE b.log[i]],
     left |-> b.listings,
     streak |-> b.streak]

\* C8: a run whose webhook POSTs succeed or fail in any way (or that has no
\* webhook at all) takes the same
\* steps (authenticate, fetch, notifications, sleeps of the same lengths,
\* termination) as the run on the same inputs whose POSTs all succeed.
C8_NotificationOutcomeIrrelevant == Trace(Cur) = Trace(twin)

C8_Witness ==
    /\ pc = "fetch"
    /\ Count(log, "post") = 2
    /\ \A i \in DOMAIN log : log[i].op = "post" => log[i].out \in {"timeout", "non_2xx"}
    /\ \A i \in DOMAIN twin.log : twin.log[i].op = "post" => twin.log[i].out = "2xx"
    /\ Last(log).op = "sleep"

\* ----------------------------------------------------------------------- C9
\* C9: an exception that escaped a step of the cycle (the fetch did not
\* return) is handled inside the loop and followed by exactly
\* one error alert carrying its text, then a 60-second sleep, then the next
\* fetch, however many cycles in a row have failed.
C9_EscapedExceptionBacksOff ==
    /\ (Has(log, "fetch") /\ ~Has(log, "return")) =>
          pc \in {"cycle_alert", "sleep_short", "fetch"}
    /\ pc = "cycle_alert" => err # "" /\ ~Has(log, "post")
    /\ pc = "sleep_short" =>
          /\ Last(log).op = "post"
          /\ Last(log).msg = "[warn] Unexpected error: " \o err
          /\ Count(log, "post") = 1
          /\ ~Has(log, "sleep")
    /\ (pc = "fetch" /\ streak > 0) =>
          /\ Len(log) >= 3
          /\ Last(log) = [op |-> "sleep", secs |-> 60]
          /\ log[Len(log) - 1].op = "post"
          /\ log[Len(log) - 1].msg = "[warn] Unexpected error: " \o err
          /\ Count(log, "post") = 1
          /\ Count(log, "sleep") = 1

C9_Witness ==
    /\ pc = "fetch"
    /\ streak = MaxStreak
    /\ Last(log) = [op |-> "sleep", secs |-> 60]

\* ---------------------------------------------------------------------- C10
\* C10: after a fetch has returned n listings, the notifications sent are
\* the messages of the first listings, in order, one each; the rest are
\* still to be visited; all n are sent when the 300-second sleep begins, and
\* nothing else happens in the cycle.
C10_OneNotificationPerListing ==
    \A k \in DOMAIN log :
        log[k].op = "return" =>
            LET v == log[k].v
                after == After(log, k)
                sent == Posts(after)
            IN  /\ pc \in {"notify", "sleep_long", "fetch"}
                /\ Len(sent) + Len(listings) = Len(v)
                /\ \A i \in DOMAIN sent : sent[i].msg = FormatMessage(v[i])
                /\ \A i \in DOMAIN listings : listings[i] = v[Len(sent) + i]
                /\ pc = "notify" => after = sent /\ listings # << >>
                /\ pc = "sleep_long" => after = sent /\ listings = << >>
                /\ pc = "fetch" => after = Append(sent, [op |-> "sleep", secs |-> 300])

C10_Witness ==
    /\ pc = "fetch"
    /\ \E k \in DOMAIN log :
          /\ log[k].op = "return"
          /\ Len(log[k].v) = 2
          /\ log[k].v[1].slug = JStr("card-b")
          /\ log[k].v[2].slug = JStr("card-a")
          /\ Count(After(log, k), "post") = 2

\* ---------------------------------------------------------------------- C14
\* ---------------------------------------------------------------------- C11
StartedMessage == "[green] Sorare Bot Started Successfully"
StartedPosts(events) ==
    Len(SelectSeq(events, LAMBDA e : e.op = "post" /\ e.msg = StartedMessage))

\* C11: the "started" notification is sent once in a run in which
\* _authenticate returned, after that return and before the first fetch, it
\* is not sent again in any cycle, and it is never sent when _authenticate
\* raised.
C11_StartedOnceBeforeFirstFetch ==
    /\ startedSent <= 1
    /\ startedSent = 1 <=> (authState = "returned" /\ pc # "started_alert")
    /\ authState # "returned" => StartedPosts(log) = 0
    /\ pc = "started_alert" => ~Has(log, "fetch") /\ Last(log).op = "sign_in"
    /\ (pc = "fetch" /\ ~Has(log, "fetch")) =>
          /\ Last(log).op = "post"
          /\ Last(log).msg = StartedMessage
          /\ StartedPosts(log) = 1
    /\ Has(log, "fetch") => StartedPosts(log) = 0 /\ startedSent = 1

C11_Witness ==
    /\ pc = "fetch"
    /\ startedSent = 1
    /\ Has(log, "fetch")
    /\ Count(log, "post") = 2

\* ---------------------------------------------------------------------- C12
\* The nodes of a listings reply, and the sale offers of a node
NodesOf(body) ==
    IF /\ "football" \in DOMAIN body.f
       /\ body.f["football"].t = "obj"
       /\ "cards" \in DOMAIN body.f["football"].f
       /\ body.f["football"].f["cards"].t = "obj"
       /\ "nodes" \in DOMAIN body.f["football"].f["cards"].f
       /\ body.f["football"].f["cards"].f["nodes"].t = "list"
    THEN body.f["football"].f["cards"].f["nodes"].l
    ELSE << >>

OffersOf(card) ==
    IF /\ "saleOffers" \in DOMAIN card.f
       /\ card.f["saleOffers"].t = "obj"
       /\ "edges" \in DOMAIN card.f["saleOffers"].f
       /\ card.f["saleOffers"].f["edges"].t = "list"
    THEN card.f["saleOffers"].f["edges"].l
    ELSE << >>

\* C12: the processing of a listings response that returns items does not
\* raise and gives one Listing per item, in order: "N/A"/"N/A" for an item
\* with no sale offer, the amount and currency of the first offer otherwise.
C12_OneListingPerNode ==
    (processed # NotParsed /\ NodesOf(reply) # << >>) =>
        /\ processed.ok
        /\ Len(processed.v) = Len(NodesOf(reply))
        /\ \A i \in DOMAIN processed.v :
              LET offers == OffersOf(NodesOf(reply)[i])
              IN  IF offers = << >>
                  THEN /\ processed.v[i].price = JStr("N/A")
                       /\ processed.v[i].currency = JStr("N/A")
                  ELSE /\ processed.v[i].price = offers[1].f["node"].f["price"].f["amount"]
                       /\ processed.v[i].currency = offers[1].f["node"].f["price"].f["currency"]

\* ---------------------------------------------------------------------- C13
\* C13: every notification that failed (network error, non-2xx status,
\* timeout) was caught and logged locally by _send_alert, and did not reach
\* the caller: run() is in no except handler on account of it.
C13_FailedNotificationLogged ==
    /\ \A i \in DOMAIN log :
          (log[i].op = "post" /\ log[i].out # "2xx") => log[i].printed
    /\ (log # << >> /\ Last(log).op = "post") =>
          pc \notin {"cycle_alert", "critical_alert"}

\* ---------------------------------------------------------------------- C14
\* _fetch_listings has just been called: the last entry of the cycle's history
\* is its return, or the query it made before an exception left it.
JustFetched ==
    /\ Has(log, "fetch")
    /\ Last(log).op \in {"return", "execute", "fetch"}

\* C14: once _authenticate has returned, run() never stops: whatever the
\* peers reply, as long as run() keeps executing its next statement, a
\* _fetch_listings call happens again and again.
C14_FetchesForever ==
    [](authState # "returned") \/ []<>JustFetched

C14_Witness ==
    /\ pc = "sleep_short"
    /\ streak = MaxStreak
    /\ Last(log).out = "connection_error"

\* ---------------------------------------------------------------------- C15
\* C15: _authenticate is called at most once in a run, and once self.client
\* is set no step of run() changes it, whatever fetches fail.
C15_SessionNeverReplaced ==
    [][/\ authCalls' <= 1
       /\ client.t = "client" => client' = client]_vars

C15_Witness ==
    /\ pc = "fetch"
    /\ ExecuteRaised
    /\ authCalls = 1
    /\ client = AuthedClient(JStr("jwt-1"))

\* ---------------------------------------------------------------------- C16
\* C16: a cycle holds at most one sleep, as its last step; when run() is
\* about to fetch again, the cycle before ended with exactly one sleep: 300
\* seconds if _fetch_listings returned, 60 if an exception left the cycle.
C16_OneSleepBetweenFetches ==
    /\ Count(log, "sleep") <= 1
    /\ Has(log, "sleep") =>
          /\ Last(log).op = "sleep"
          /\ Has(log, "fetch")
          /\ pc = "fetch"
    /\ (pc = "fetch" /\ Has(log, "fetch")) =>
          /\ Has(log, "return") <=> streak = 0
          /\ Last(log) = [op |-> "sleep", secs |-> IF Has(log, "return") THEN 300 ELSE 60]

C16_Witness ==
    /\ pc = "fetch"
    /\ streak = 1
    /\ log[2].op = "execute"
    /\ ~log[2].raised
    /\ Last(log) = [op |-> "sleep", secs |-> 60]

\* ---------------------------------------------------------------------- C17
\* The processing of this node raises: it has no slug, or its player is not
\* an object with a displayName.
Malformed(card) ==
    \/ "slug" \notin DOMAIN card.f
    \/ "player" \notin DOMAIN card.f
    \/ card.f["player"].t # "obj"
    \/ "displayName" \notin DOMAIN card.f["player"].f

\* The reply of the cycle's listings query has a node whose processing raises.
MalformedReply ==
    /\ Len(log) >= 2
    /\ log[2].op = "execute"
    /\ ~log[2].raised
    /\ \E i \in DOMAIN NodesOf(log[2].resp.body) : Malformed(NodesOf(log[2].resp.body)[i])

\* C17: in a cycle whose listings reply has a node whose processing raises, no
\* listing notification is sent, also not for the well-formed nodes before
\* it: the only notification of the cycle is the one error alert.
C17_NoNotificationOnMalformedReply ==
    MalformedReply =>
        /\ pc \in {"cycle_alert", "sleep_short", "fetch"}
        /\ listings = << >>
        /\ \A j \in DOMAIN log :
              log[j].op = "post" => log[j].msg = "[warn] Unexpected error: " \o err
        /\ Count(log, "post") = IF pc = "cycle_alert" THEN 0 ELSE 1

C17_Witness ==
    /\ MalformedReply
    /\ pc = "fetch"
    /\ Len(NodesOf(log[2].resp.body)) = 2
    /\ ~Malformed(NodesOf(log[2].resp.body)[1])
    /\ Malformed(NodesOf(log[2].resp.body)[2])
    /\ Count(log, "post") = 1

====
